---- MODULE Spec2Model ----
(***************************************************************************)
(* Porto taxi data cleaning: the polyline validator                        *)
(* (part1/eda/verify_polyline_bounds.py) and the duplicate handling        *)
(* (part1/data_cleaning.py).                                               *)
(*                                                                         *)
(* Coordinates are floats in the source.  Here a coordinate is an integer  *)
(* number of 1e-4 degrees, so the comparisons of the bounds check keep     *)
(* their meaning and the bounding box is computed in fixed point.          *)
(***************************************************************************)
EXTENDS Integers, Sequences, FiniteSets, TLC

VARIABLES
    pc,                   \* position of the run: "call", "done", "once", "twice"
    polyline_str,         \* validate_single_polyline: the POLYLINE cell
    min_polyline_points,  \* validate_single_polyline: argument
    max_polyline_points,  \* validate_single_polyline: argument
    result,               \* validate_single_polyline: the returned dictionary
    df,                   \* handle_duplicates: the frame passed in
    out,                  \* handle_duplicates(df)
    out2,                 \* handle_duplicates(handle_duplicates(df))
    points,               \* read_taxi / apply_labels: the taxi's samples (df)
    labels_file,          \* read_taxi: labels.txt of the taxi folder
    labels,               \* read_labels(labels_file)
    li,                   \* apply_labels: position of the loop over labels
    radius,               \* calculate_bounding_box_coord: argument of a first call
    radius2,              \* calculate_bounding_box_coord: argument of a second call
    bbox,                 \* calculate_bounding_box_coord(radius)
    bbox2,                \* calculate_bounding_box_coord(radius2)
    tz,                   \* the local time zone of the process
    trips,                \* create_trajectory_files: taxi_data, the rows of one taxi
    ti,                   \* create_trajectory_files: position of the loop over the rows
    files,                \* the taxi's Trajectory directory: file name -> lines
    plt_files,            \* read_taxi: the file names in the order glob returned them
    traj,                 \* read_taxi: the returned frame
    batch,                \* count_invalid_trips: the POLYLINE and MISSING_DATA columns of df
    arg_min_points,       \* count_invalid_trips: argument min_points
    arg_max_points,       \* count_invalid_trips: argument max_points
    ci,                   \* count_invalid_trips: the rows the loop has been through
    counts_missing,       \* count_invalid_trips: counters of the rows with MISSING_DATA
    counts_valid_flag,    \* count_invalid_trips: counters of the rows without
    summary,              \* count_invalid_trips: the returned dictionary
    raw,                  \* data_cleaning.py: df, the rows read from raw_file
    df_clean,             \* data_cleaning.py: df_clean
    clean_file            \* data_cleaning.py: the file clean_file

validatorVars == <<polyline_str, min_polyline_points, max_polyline_points, result>>
dedupVars     == <<df, out, out2>>

labelVars     == <<points, labels_file, labels, li>>

bboxVars      == <<radius, radius2, bbox, bbox2>>

trajVars      == <<tz, trips, ti, files, plt_files, traj>>

countVars     == <<batch, arg_min_points, arg_max_points, ci, counts_missing,
                   counts_valid_flag, summary>>

cleanVars     == <<raw, df_clean, clean_file>>

vars == <<pc, validatorVars, dedupVars, labelVars, bboxVars, trajVars, countVars,
          cleanVars>>

----------------------------------------------------------------------------
(* Bounds of the model *)

\* longest polyline (number of top-level elements of the JSON list)
MaxPoints == 3
\* min_polyline_points and max_polyline_points range over 0..MaxThreshold
MaxThreshold == 2
\* the row labels of a frame are a subset of 0..MaxIdx
MaxIdx == 2
\* most samples of a taxi passed to apply_labels
MaxSamples == 3
\* most lines of a labels.txt
MaxLines == 2
\* the small radii are -2..MaxRadius metres
MaxRadius == 15
\* most rows (trips) of one taxi
MaxTrips == 2
\* most rows of a batch that is counted
MaxBatch == 2
\* most rows of the raw file that is cleaned
MaxRaw == 2
\* most points of the polyline of a trip that is written to a file
MaxTripPoints == 2

----------------------------------------------------------------------------
(* verify_polyline_bounds.py: the bounding box *)

\* center point, in 1e-4 degrees (41.14961, -8.61099)
lat == 411496
lon == 0 - 86110

\* 111.32 km per degree, times 100
lat_distance_const == 11132
\* math.cos(math.radians(lat)) = 0.75299..., times 10000
cos_lat == 7530

\* The radius is a float number of km in the source; here it is a whole number
\* of metres, and the result is in 1e-4 degrees: as with floats, a range below
\* the precision of the coordinates is lost when it is added to the center.
calculate_bounding_box_coord_swapped(r) ==
    LET lat_range == (r * 1000) \div lat_distance_const
        lon_range == (r * 1000) \div ((lat_distance_const * cos_lat) \div 10000)
    IN  [min_lon |-> lon - lat_range,
         max_lon |-> lon + lat_range,
         min_lat |-> lat + lon_range,
         max_lat |-> lat - lon_range]

calculate_bounding_box_coord(r) ==
    LET lat_range == (r * 1000) \div lat_distance_const
        lon_range == (r * 1000) \div ((lat_distance_const * cos_lat) \div 10000)
    IN  [min_lon |-> lon - lon_range,
         max_lon |-> lon + lon_range,
         min_lat |-> lat - lat_range,
         max_lat |-> lat + lat_range]

\* line 103: radius=30 (km)
PORTO_BOUNDS == calculate_bounding_box_coord(30000)

----------------------------------------------------------------------------
(* The POLYLINE cell.  A cell is NaN (no value), text json.loads rejects,  *)
(* or text json.loads parses: a scalar, or a list of elements.  An element *)
(* of the list is a scalar token or a list of tokens; a token is a number, *)
(* a string that is no number, or null.                                    *)

Num(v)  == [t |-> "num", v |-> v]
StrTok  == [t |-> "str", v |-> 0]
NullTok == [t |-> "null", v |-> 0]

Scalar(tok) == [scalar |-> TRUE, toks |-> <<tok>>]
List(toks)  == [scalar |-> FALSE, toks |-> toks]
Point(x, y) == List(<<Num(x), Num(y)>>)

\* points at the center, on the box's corners (inclusive bounds), and one
\* step outside the box in longitude and in latitude
InsidePoints ==
    { Point(lon, lat),
      Point(PORTO_BOUNDS.min_lon, PORTO_BOUNDS.min_lat),
      Point(PORTO_BOUNDS.max_lon, PORTO_BOUNDS.max_lat) }
OutsidePoints ==
    { Point(PORTO_BOUNDS.min_lon - 1, lat),
      Point(lon, PORTO_BOUNDS.max_lat + 1) }
Points == InsidePoints \cup OutsidePoints

\* elements that are no (longitude, latitude) pair of numbers
OtherElements ==
    { Scalar(Num(lon)),                          \* 1.5 instead of [1.5, 2.5]
      List(<<Num(lon)>>),                        \* [1.5]
      List(<<Num(lon), Num(lat), Num(0)>>),      \* [1.5, 2.5, 0]
      List(<<StrTok, Num(lat)>>),                \* ["a", 2.5]
      List(<<NullTok, Num(lat)>>) }              \* [null, 2.5]

Elements == Points \cup OtherElements

SeqsUpTo(S, n) == UNION { [1..k -> S] : k \in 0..n }

NaNCell        == [kind |-> "nan", items |-> <<>>, truthy |-> FALSE]
BadText        == [kind |-> "bad", items |-> <<>>, truthy |-> FALSE]
ScalarText(b)  == [kind |-> "scalar", items |-> <<>>, truthy |-> b]
ListText(s)    == [kind |-> "list", items |-> s, truthy |-> s # <<>>]

PolylineCells ==
    {NaNCell, BadText, ScalarText(FALSE), ScalarText(TRUE)}
        \cup { ListText(s) : s \in SeqsUpTo(Elements, MaxPoints) }

----------------------------------------------------------------------------
(* verify_polyline_bounds.py: validate_single_polyline *)

\* point_count = None
None == -1

EmptyResult     == [valid |-> FALSE, reason |-> "empty", point_count |-> 0]
MalformedResultZero == [valid |-> FALSE, reason |-> "malformed", point_count |-> 0]
MalformedResult == [valid |-> FALSE, reason |-> "malformed", point_count |-> None]

\* np.array(polyline, dtype=float): raises on a string that is no number and
\* on a ragged list; null becomes nan.  ndim and shape of the array, and its rows.
NpArray(cell) ==
    LET items == cell.items
        n     == Len(items)
        toksOk == \A i \in 1..n : \A j \in 1..Len(items[i].toks) :
                      items[i].toks[j].t # "str"
        allScalar == \A i \in 1..n : items[i].scalar
        allLists  == \A i \in 1..n :
                        /\ ~items[i].scalar
                        /\ Len(items[i].toks) = Len(items[1].toks)
    IN  IF cell.kind = "scalar"
        THEN [ok |-> TRUE, ndim |-> 0, shape0 |-> 0, shape1 |-> 0, rows |-> <<>>]
        ELSE IF ~toksOk \/ ~(allScalar \/ allLists)
        THEN [ok |-> FALSE, ndim |-> 0, shape0 |-> 0, shape1 |-> 0, rows |-> <<>>]
        ELSE [ok |-> TRUE,
              ndim |-> IF allScalar THEN 1 ELSE 2,
              shape0 |-> n,
              shape1 |-> IF allScalar THEN 0 ELSE Len(items[1].toks),
              rows |-> [i \in 1..n |-> items[i].toks]]

\* a comparison with nan is false
Between(tok, lo, hi) == tok.t = "num" /\ tok.v >= lo /\ tok.v <= hi

\* in_bounds.all() over lons = coords[:, 0] and lats = coords[:, 1]
InBoundsAll(rows) ==
    \A i \in 1..Len(rows) :
        /\ Between(rows[i][1], PORTO_BOUNDS.min_lon, PORTO_BOUNDS.max_lon)
        /\ Between(rows[i][2], PORTO_BOUNDS.min_lat, PORTO_BOUNDS.max_lat)

IsTooShortInclusive(point_count, min_points) == point_count <= min_points
IsTooShort(point_count, min_points) == point_count < min_points

IsTooLong(point_count, max_points) == point_count > max_points

\* lines 160-180: the columns, the bounds check and the two returns after it
BoundsResult(coords) ==
    IF coords.ndim < 2 \/ coords.shape1 < 2
    THEN MalformedResult                      \* IndexError at coords[:, 0] / [:, 1]
    ELSE IF ~InBoundsAll(coords.rows)
    THEN [valid |-> FALSE, reason |-> "out_of_bounds", point_count |-> coords.shape0]
    ELSE [valid |-> TRUE, reason |-> "valid", point_count |-> coords.shape0]

\* the bounds check done before the length checks
CheckedResultBoundsFirst(coords, min_points, max_points) ==
    IF BoundsResult(coords).reason # "valid"
    THEN BoundsResult(coords)
    ELSE IF IsTooShort(coords.shape0, min_points)
    THEN [valid |-> FALSE, reason |-> "too_short", point_count |-> coords.shape0]
    ELSE IF IsTooLong(coords.shape0, max_points)
    THEN [valid |-> FALSE, reason |-> "too_long", point_count |-> coords.shape0]
    ELSE BoundsResult(coords)

\* lines 150-180
CheckedResult(coords, min_points, max_points) ==
    IF coords.ndim = 0
    THEN MalformedResult                      \* IndexError at coords.shape[0]
    ELSE IF IsTooShort(coords.shape0, min_points)
    THEN [valid |-> FALSE, reason |-> "too_short", point_count |-> coords.shape0]
    ELSE IF IsTooLong(coords.shape0, max_points)
    THEN [valid |-> FALSE, reason |-> "too_long", point_count |-> coords.shape0]
    ELSE BoundsResult(coords)

validate_single_polyline(cell, min_points, max_points) ==
    IF cell.kind = "nan" \/ (cell.kind = "list" /\ cell.items = <<>>)
    THEN EmptyResult                          \* pd.isna(...) or == "[]"
    ELSE IF cell.kind = "bad"
    THEN MalformedResult                      \* json.loads raises
    ELSE IF ~cell.truthy
    THEN EmptyResult                          \* not polyline
    ELSE IF ~NpArray(cell).ok
    THEN MalformedResult                      \* np.array raises
    ELSE CheckedResult(NpArray(cell), min_points, max_points)

----------------------------------------------------------------------------
(* Specification of the validator: one call on any cell and thresholds *)

NoResult == [valid |-> FALSE, reason |-> "none", point_count |-> None]

\* the variables of the other components, and their values while unused
DedupIdle == df = <<>> /\ out = <<>> /\ out2 = <<>>
LabelIdle ==
    /\ points = <<>>
    /\ labels_file = [exists |-> FALSE, lines |-> <<>>]
    /\ labels = <<>>
    /\ li = 0

NoBox == [min_lon |-> 0, max_lon |-> 0, min_lat |-> 0, max_lat |-> 0]
BBoxIdle == radius = 0 /\ radius2 = 0 /\ bbox = NoBox /\ bbox2 = NoBox

TrajIdle ==
    /\ tz = "UTC" /\ trips = <<>> /\ ti = 0
    /\ files = <<>> /\ plt_files = <<>> /\ traj = <<>>

\* lines 199-216: the keys of both dictionaries, all at 0
Reasons == {"empty", "too_short", "too_long", "out_of_bounds", "malformed", "valid"}
\* every counter starting at 1
OneCounts == [k \in Reasons |-> 1]
ZeroCounts == [k \in Reasons |-> 0]
NoSummary == [missing_data_true |-> ZeroCounts, missing_data_false |-> ZeroCounts]

CountIdle ==
    /\ batch = <<>> /\ arg_min_points = 0 /\ arg_max_points = 0 /\ ci = 0
    /\ counts_missing = ZeroCounts /\ counts_valid_flag = ZeroCounts
    /\ summary = NoSummary

\* clean_file before to_csv writes it
NotWritten == [written |-> FALSE, rows |-> <<>>]
CleanIdle == raw = <<>> /\ df_clean = <<>> /\ clean_file = NotWritten

notValidatorVars == <<dedupVars, labelVars, bboxVars, trajVars, countVars, cleanVars>>
NotValidatorIdle ==
    DedupIdle /\ LabelIdle /\ BBoxIdle /\ TrajIdle /\ CountIdle /\ CleanIdle

InitValidator ==
    /\ pc = "call"
    /\ polyline_str \in PolylineCells
    /\ min_polyline_points \in 0..MaxThreshold
    /\ max_polyline_points \in 0..MaxThreshold
    /\ result = NoResult
    /\ NotValidatorIdle

ValidateSinglePolyline ==
    /\ pc = "call"
    /\ result' = validate_single_polyline(polyline_str, min_polyline_points,
                                          max_polyline_points)
    /\ pc' = "done"
    /\ UNCHANGED <<polyline_str, min_polyline_points, max_polyline_points,
                   notValidatorVars>>

NextValidator == ValidateSinglePolyline

SpecValidator == InitValidator /\ [][NextValidator]_vars

----------------------------------------------------------------------------
(* Properties of the validator *)

\* a polyline: a list (possibly empty) of (longitude, latitude) pairs of numbers
IsPair(e) == ~e.scalar /\ Len(e.toks) = 2 /\ e.toks[1].t = "num" /\ e.toks[2].t = "num"
IsPolyline(cell) ==
    cell.kind = "list" /\ \A i \in 1..Len(cell.items) : IsPair(cell.items[i])
NumPoints(cell) == Len(cell.items)
PointInBox(e) ==
    /\ PORTO_BOUNDS.min_lon <= e.toks[1].v /\ e.toks[1].v <= PORTO_BOUNDS.max_lon
    /\ PORTO_BOUNDS.min_lat <= e.toks[2].v /\ e.toks[2].v <= PORTO_BOUNDS.max_lat
AllInBox(cell) == \A i \in 1..Len(cell.items) : PointInBox(cell.items[i])
CountInRange == 
    /\ min_polyline_points <= NumPoints(polyline_str)
    /\ NumPoints(polyline_str) <= max_polyline_points
ValidatedPolyline ==
    pc = "done" /\ IsPolyline(polyline_str)

\* C1 as stated: for every polyline and min_points <= max_points, valid is true
\* iff the number of points is in [min_points, max_points] and every point is
\* inside the box (all bounds inclusive).
C1_ValidIffCountAndBox ==
    (ValidatedPolyline /\ min_polyline_points <= max_polyline_points)
        => (result.valid <=> (CountInRange /\ AllInBox(polyline_str)))

\* C1 amended: ... valid is true iff the polyline has at least one point, the
\* number of points is in [min_points, max_points] and every point is inside
\* the box: an empty polyline is "empty", also when min_points = 0.
C1_ValidIffNonEmptyCountAndBox ==
    (ValidatedPolyline /\ min_polyline_points <= max_polyline_points)
        => (result.valid <=>
                (NumPoints(polyline_str) >= 1 /\ CountInRange /\ AllInBox(polyline_str)))

\* C1 witness: a polyline of exactly min_points = max_points points, one of them
\* on the corner of the box, found valid
C1_Witness ==
    /\ ValidatedPolyline
    /\ NumPoints(polyline_str) = min_polyline_points
    /\ NumPoints(polyline_str) = max_polyline_points
    /\ \E i \in 1..NumPoints(polyline_str) :
           polyline_str.items[i] = Point(PORTO_BOUNDS.min_lon, PORTO_BOUNDS.min_lat)
    /\ result.valid

\* the reason the priority order gives a cell that is NaN, rejected by the
\* parser, or a polyline
PriorityReason(cell, min_points, max_points) ==
    IF cell.kind = "bad" THEN "malformed"
    ELSE IF NumPoints(cell) = 0 THEN "empty"
    ELSE IF NumPoints(cell) < min_points THEN "too_short"
    ELSE IF NumPoints(cell) > max_points THEN "too_long"
    ELSE IF ~AllInBox(cell) THEN "out_of_bounds"
    ELSE "valid"

C3_NonPairsAreMalformed ==
    (pc = "done" /\ polyline_str.kind \in {"bad", "list"} /\ ~IsPolyline(polyline_str))
        => result = MalformedResult

\* C4: valid == (reason == "valid"); the reason is one of the six; point_count
\* is none exactly for malformed, 0 exactly for empty, and otherwise the number
\* of points of the polyline (also for out_of_bounds).
C4_ResultShape ==
    pc = "done" =>
        /\ result.valid <=> (result.reason = "valid")
        /\ result.reason \in {"valid", "empty", "malformed", "too_short",
                              "too_long", "out_of_bounds"}
        /\ (result.point_count = None) <=> (result.reason = "malformed")
        /\ (result.point_count = 0) <=> (result.reason = "empty")
        /\ result.reason \notin {"malformed", "empty"}
             => result.point_count = NumPoints(polyline_str)

\* C4 witness: an out_of_bounds result that reports the full count, the point
\* outside being the first one
C4_Witness ==
    /\ ValidatedPolyline
    /\ NumPoints(polyline_str) >= 2
    /\ polyline_str.items[1] \in OutsidePoints
    /\ result.reason = "out_of_bounds"
    /\ result.point_count = NumPoints(polyline_str)

----------------------------------------------------------------------------
(* data_cleaning.py: handle_duplicates                                     *)
(*                                                                         *)
(* A frame is the sequence of its rows in order; a row carries its index   *)
(* label idx, which drop_duplicates and boolean selection preserve.  The   *)
(* columns other than POLYLINE are TRIP_ID and TAXI_ID.  A TRIP_ID is      *)
(* off * 10000000000000 + base with base below the offset, read from the   *)
(* CSV as an integer (str = FALSE) or written by line 33 as the string of  *)
(* the integer (str = TRUE): pandas compares an integer and a string as    *)
(* different.                                                              *)

IntId(n) == [str |-> FALSE, off |-> 0, base |-> n]

TripIds    == {IntId(0), IntId(1), IntId(100)}
TaxiIds    == {1, 2, 3}
Polylines  == {"a", "b"}
RowData    == [TRIP_ID : TripIds, TAXI_ID : TaxiIds, POLYLINE : Polylines]

Row(label, d) ==
    [idx |-> label, TRIP_ID |-> d.TRIP_ID, TAXI_ID |-> d.TAXI_ID,
     POLYLINE |-> d.POLYLINE]

\* the frame with the labels S, in increasing order, and the data f[label]
Frame(S, f) ==
    LET all    == [i \in 1..(MaxIdx + 1) |-> i - 1]
        idxs == SelectSeq(all, LAMBDA l : l \in S)
    IN  [i \in 1..Len(idxs) |-> Row(idxs[i], f[idxs[i]])]

IsFrame(frame) ==
    \E S \in SUBSET (0..MaxIdx) : \E f \in [S -> RowData] : frame = Frame(S, f)

\* every column, POLYLINE included
AllColumns(row) == <<row.TRIP_ID, row.TAXI_ID, row.POLYLINE>>
\* line 20: the columns other than POLYLINE
columns_to_check(row) == <<row.TRIP_ID, row.TAXI_ID>>

\* drop_duplicates comparing every column
DropDuplicatesAllColumns(frame) ==
    LET F[i \in 0..Len(frame)] ==
            IF i = 0 THEN <<>>
            ELSE IF \E j \in 1..(i - 1) : AllColumns(frame[j]) = AllColumns(frame[i])
                 THEN F[i - 1]
                 ELSE Append(F[i - 1], frame[i])
    IN  F[Len(frame)]

\* drop_duplicates with keep="last"
DropDuplicatesKeepLast(frame) ==
    LET F[i \in 0..Len(frame)] ==
            IF i = 0 THEN <<>>
            ELSE IF \E j \in (i + 1)..Len(frame) :
                        columns_to_check(frame[j]) = columns_to_check(frame[i])
                 THEN F[i - 1]
                 ELSE Append(F[i - 1], frame[i])
    IN  F[Len(frame)]

\* line 21: df.drop_duplicates(subset=columns_to_check, keep="first")
DropDuplicates(frame) ==
    LET F[i \in 0..Len(frame)] ==
            IF i = 0 THEN <<>>
            ELSE IF \E j \in 1..(i - 1) :
                        columns_to_check(frame[j]) = columns_to_check(frame[i])
                 THEN F[i - 1]
                 ELSE Append(F[i - 1], frame[i])
    IN  F[Len(frame)]

\* df.groupby("TRIP_ID").size() at the key id; 0 where the key is absent
GroupSize(frame, id) ==
    Cardinality({ i \in 1..Len(frame) : frame[i].TRIP_ID = id })

\* line 24: the sizes are a Series indexed by TRIP_ID, and the assignment
\* aligns it on the frame's index: the row labelled l gets the size of the
\* group whose TRIP_ID is the integer l, and NaN (here 0) if there is none.
TRIP_ID_count(frame, label) == GroupSize(frame, IntId(label))

\* line 25: the labels of the rows with TRIP_ID_count > 1, in frame order
duplicate_trip_ids(frame) ==
    LET idxs == [i \in 1..Len(frame) |-> frame[i].idx]
    IN  SelectSeq(idxs, LAMBDA l : TRIP_ID_count(frame, l) > 1)

\* a new id one above the old one, kept an integer
NewTripIdNextInteger(id) == [str |-> FALSE, off |-> id.off, base |-> id.base + 1]

\* line 33: f"{row['TRIP_ID'] + 10000000000000}"
NewTripId(id) == [str |-> TRUE, off |-> id.off + 1, base |-> id.base]

\* lines 28-34: one pass of the outer loop, for trip_id
RenameGroup(frame, trip_id) ==
    LET mask == { i \in 1..Len(frame) : frame[i].TRIP_ID = IntId(trip_id) }
    IN  [i \in 1..Len(frame) |->
            IF i \in mask /\ (\E j \in mask : j < i)      \* if i > 0
            THEN [frame[i] EXCEPT !.TRIP_ID = NewTripId(frame[i].TRIP_ID)]
            ELSE frame[i]]

\* lines 27-34: the outer loop over the labels computed before it
RECURSIVE RenameLoop(_, _)
RenameLoop(frame, ids) ==
    IF ids = <<>> THEN frame
    ELSE RenameLoop(RenameGroup(frame, Head(ids)), Tail(ids))

\* lines 13-38; the helper column TRIP_ID_count is added and dropped again
handle_duplicates(frame) ==
    LET deduped == DropDuplicates(frame)
    IN  RenameLoop(deduped, duplicate_trip_ids(deduped))

----------------------------------------------------------------------------
(* Specification of the duplicate handling: handle_duplicates on any frame, *)
(* then on its own output                                                   *)

ValidatorIdle ==
    /\ polyline_str = NaNCell
    /\ min_polyline_points = 0
    /\ max_polyline_points = 0
    /\ result = NoResult

notDedupVars == <<validatorVars, labelVars, bboxVars, trajVars, countVars, cleanVars>>
NotDedupIdle ==
    ValidatorIdle /\ LabelIdle /\ BBoxIdle /\ TrajIdle /\ CountIdle /\ CleanIdle

InitDedup ==
    /\ pc = "start"
    /\ IsFrame(df)
    /\ out = <<>>
    /\ out2 = <<>>
    /\ NotDedupIdle

HandleDuplicates ==
    /\ pc = "start"
    /\ out' = handle_duplicates(df)
    /\ pc' = "once"
    /\ UNCHANGED <<df, out2, notDedupVars>>

HandleDuplicatesAgain ==
    /\ pc = "once"
    /\ out2' = handle_duplicates(out)
    /\ pc' = "twice"
    /\ UNCHANGED <<df, out, notDedupVars>>

NextDedup == HandleDuplicates \/ HandleDuplicatesAgain

SpecDedup == InitDedup /\ [][NextDedup]_vars

----------------------------------------------------------------------------
(* Properties of the duplicate handling *)

Ran == pc \in {"once", "twice"}

\* the rows of the input no earlier row agrees with on every column but POLYLINE
IsFirstOfItsKind(i) ==
    \A j \in 1..(i - 1) : columns_to_check(df[j]) # columns_to_check(df[i])
KeptLabels == { df[i].idx : i \in { k \in 1..Len(df) : IsFirstOfItsKind(k) } }
InputRow(label) == df[CHOOSE i \in 1..Len(df) : df[i].idx = label]
OutLabels == { out[k].idx : k \in 1..Len(out) }
OutRow(label) == out[CHOOSE k \in 1..Len(out) : out[k].idx = label]

\* the original id plus the offset, as an integer or as its string
IsOffsetOf(new, old) == new.base = old.base /\ new.off = old.off + 1

\* a group of the input that shares a TRIP_ID and differs in content: the
\* labels, in input order, of the rows with this id that are no exact duplicate
Collision(id) ==
    { df[i].idx : i \in { k \in 1..Len(df) : IsFirstOfItsKind(k) /\ df[k].TRIP_ID = id } }

\* C5: after handle_duplicates no two records of the output share a TRIP_ID,
\* also when three or more records collide on one id.
C5_UniqueIds ==
    Ran => \A i, j \in 1..Len(out) : i # j => out[i].TRIP_ID # out[j].TRIP_ID

\* C6: in each group that shares a TRIP_ID and differs in content the first
\* record keeps the id, every later record is retained with the original id
\* plus the fixed offset, and no record of the group is dropped.
C6_LaterRecordsGetOffsetId ==
    Ran => \A id \in TripIds : \A l \in Collision(id) :
              /\ l \in OutLabels
              /\ IF \A m \in Collision(id) : l <= m
                 THEN OutRow(l).TRIP_ID = id
                 ELSE IsOffsetOf(OutRow(l).TRIP_ID, id)

\* C7: exact-duplicate removal keeps, of the records that agree on every field
\* but the polyline, only the first in input order; the retained records keep
\* their relative order; a record is removed only if an earlier one agrees with
\* it on every field but the polyline.
C7_KeepFirstExactDuplicate ==
    Ran =>
        /\ OutLabels = KeptLabels
        /\ Len(out) = Cardinality(KeptLabels)
        /\ \A k \in 1..(Len(out) - 1) : out[k].idx < out[k + 1].idx
        /\ \A k \in 1..Len(out) :
              /\ out[k].TAXI_ID = InputRow(out[k].idx).TAXI_ID
              /\ out[k].POLYLINE = InputRow(out[k].idx).POLYLINE

\* C7 witness: of two records that differ in the polyline only, the second was
\* removed and the first is in the output with its polyline, before a record
\* that came after both
C7_Witness ==
    /\ pc = "once"
    /\ Len(df) = 3
    /\ columns_to_check(df[1]) = columns_to_check(df[2])
    /\ df[1].POLYLINE # df[2].POLYLINE
    /\ columns_to_check(df[3]) # columns_to_check(df[1])
    /\ Len(out) = 2
    /\ out[1].idx = df[1].idx /\ out[1].POLYLINE = df[1].POLYLINE
    /\ out[2].idx = df[3].idx

\* C8: handle_duplicates(handle_duplicates(B)) = handle_duplicates(B): same
\* records, same ids, same order.
C8_Idempotent ==
    pc = "twice" => out2 = out

\* C8 witness: the first run removed a record and gave another a new id, and
\* the second run has been made
C8_Witness ==
    /\ pc = "twice"
    /\ Len(out) < Len(df)
    /\ \E k \in 1..Len(out) : out[k].TRIP_ID # InputRow(out[k].idx).TRIP_ID

\* C11: if the id derived for a colliding record equals an id already present
\* in the batch or already assigned in the same run, reconciliation fails
\* (IdentitySpaceExhausted): it never returns a batch in which a record that
\* was given a new id shares that id with another record.
C11_NoNewCollisionReturned ==
    Ran => \A i, j \in 1..Len(out) :
              (i # j /\ out[i].TRIP_ID # InputRow(out[i].idx).TRIP_ID)
                  => out[i].TRIP_ID # out[j].TRIP_ID

\* two records with trip_id = 100, equal in every other field, with different
\* polylines
TwoRecordsOfTrip100 ==
    /\ Len(df) = 2
    /\ df[1].TRIP_ID = IntId(100) /\ df[2].TRIP_ID = IntId(100)
    /\ df[1].TAXI_ID = df[2].TAXI_ID
    /\ df[1].POLYLINE # df[2].POLYLINE

\* C10 as stated: of two such records the output retains both, the first with
\* trip_id = 100 and the second with a new id.
C10_BothRetained ==
    (Ran /\ TwoRecordsOfTrip100) =>
        /\ Len(out) = 2
        /\ out[1].TRIP_ID = IntId(100)
        /\ out[2].TRIP_ID # IntId(100)

\* C10 amended: of two such records the output retains the first only, with
\* trip_id = 100 and its own polyline: the second agrees with it on every field
\* but the polyline and is removed as an exact duplicate.
C10_FirstOnlyRetained ==
    (Ran /\ TwoRecordsOfTrip100) => out = <<df[1]>>

\* C10 witness: such a batch has been deduplicated
C10_Witness ==
    /\ pc = "once"
    /\ TwoRecordsOfTrip100
    /\ Len(out) = 1

----------------------------------------------------------------------------
(* visualize_paths.py: read_labels, apply_labels and the labelling part of *)
(* read_taxi.  A time is a number of seconds; the datetimes of the source  *)
(* are compared as such.                                                   *)

\* lines 43-45: mode_ids; any other mode has no id
mode_ids(name) ==
    CASE name = "taxi_stand"   -> 1
      [] name = "taxi_central" -> 2
      [] name = "taxi_street"  -> 3
      [] name = "unknown"      -> 0
      [] OTHER                 -> None

\* an unrecognised mode left without an id
ModeIdOrNone(name) == mode_ids(name)
\* mode_ids.get(i, 0), line 83
ModeIdOrZero(name) == IF mode_ids(name) = None THEN 0 ELSE mode_ids(name)

\* line 113: the keys of mode_ids with the value id, in insertion order
ModeNames == <<"taxi_stand", "taxi_central", "taxi_street", "unknown">>
label_name(id) == SelectSeq(ModeNames, LAMBDA k : mode_ids(k) = id)

\* a line of labels.txt: start and end time and a mode, or a line that
\* read_labels skips (fewer than five parts, or a date strptime rejects)
LabelLine(a, b, m) == [ok |-> TRUE, start_time |-> a, end_time |-> b, mode |-> m]
SkippedLine        == [ok |-> FALSE, start_time |-> 0, end_time |-> 0, mode |-> ""]

\* the intervals [0,10], [5,15] and [7,7], with two known modes and one that
\* is not in mode_ids
LabelLines ==
    { LabelLine(iv[1], iv[2], m) :
        iv \in {<<0, 10>>, <<5, 15>>, <<7, 7>>},
        m \in {"taxi_stand", "taxi_central", "bus"} }
      \cup {SkippedLine}

\* the sample times: on the bounds of the intervals, inside and outside them
SampleTimes == {5, 7, 10, 12, 20}

\* a sample as read_plt returns it; the label columns do not exist yet
Sample(t, k) == [time |-> t, lat |-> k, lon |-> k, label |-> None, label_name |-> ""]

\* the samples of a taxi, sorted by time as read_taxi passes them on
IsSamples(ps) ==
    \E n \in 0..MaxSamples : \E ts \in [1..n -> SampleTimes] :
        /\ \A k \in 1..(n - 1) : ts[k] <= ts[k + 1]
        /\ ps = [k \in 1..n |-> Sample(ts[k], k)]

IsLabelsFile(f) ==
    \/ f = [exists |-> FALSE, lines |-> <<>>]
    \/ \E n \in 0..MaxLines : \E ls \in [1..n -> LabelLines] :
          f = [exists |-> TRUE, lines |-> ls]

\* lines 47-89: the parsed lines with the mode encoded; None (here the empty
\* sequence) when the file is missing or no line parses
read_labels(f) ==
    LET parsed == SelectSeq(f.lines, LAMBDA l : l.ok)
    IN  [j \in 1..Len(parsed) |->
            [start_time |-> parsed[j].start_time,
             end_time   |-> parsed[j].end_time,
             label      |-> ModeIdOrZero(parsed[j].mode)]]

\* the label id set, the label name forgotten
AllUnknownIdOnly(ps) ==
    [k \in 1..Len(ps) |-> [ps[k] EXCEPT !.label = 0]]

\* lines 98-99, 103-104 and 150-151: every sample unknown
AllUnknown(ps) ==
    [k \in 1..Len(ps) |-> [ps[k] EXCEPT !.label = 0, !.label_name = "unknown"]]

InIntervalFirstMatch(p, label_row) ==
    /\ p.time >= label_row.start_time
    /\ p.time <= label_row.end_time
    /\ p.label = 0
\* lines 108-109: the mask of one interval, bounds included
InInterval(p, label_row) ==
    p.time >= label_row.start_time /\ p.time <= label_row.end_time

\* one pass that keeps the rows of the interval only
ApplyLabelMatchedOnly(ps, label_row) ==
    SelectSeq(ps, LAMBDA p : InInterval(p, label_row))

\* lines 108-115: one pass of the loop
ApplyLabel(ps, label_row) ==
    [k \in 1..Len(ps) |->
        IF InInterval(ps[k], label_row)
        THEN [ps[k] EXCEPT
                !.label = label_row.label,
                !.label_name = IF label_name(label_row.label) # <<>>
                               THEN label_name(label_row.label)[1]
                               ELSE @]
        ELSE ps[k]]

----------------------------------------------------------------------------
(* Specification of the labelling: lines 145-151 of read_taxi with         *)
(* read_labels and apply_labels, the loop of apply_labels one pass a step  *)

InitLabels ==
    /\ pc = "labels"
    /\ IsSamples(points)
    /\ IsLabelsFile(labels_file)
    /\ labels = <<>>
    /\ li = 0
    /\ ValidatorIdle
    /\ DedupIdle
    /\ BBoxIdle
    /\ TrajIdle
    /\ CountIdle
    /\ CleanIdle

notLabelVars ==
    <<validatorVars, dedupVars, bboxVars, trajVars, countVars, cleanVars>>

\* read_taxi lines 149-151: no labels.txt
LabelsFileMissing ==
    /\ pc = "labels"
    /\ ~labels_file.exists
    /\ points' = AllUnknown(points)
    /\ pc' = "labelled"
    /\ UNCHANGED <<labels_file, labels, li, notLabelVars>>

\* read_taxi lines 146-148 and apply_labels lines 97-100: read_labels gives None
ApplyLabelsNone ==
    /\ pc = "labels"
    /\ labels_file.exists
    /\ read_labels(labels_file) = <<>>
    /\ points' = AllUnknown(points)
    /\ pc' = "labelled"
    /\ UNCHANGED <<labels_file, labels, li, notLabelVars>>

\* read_taxi lines 146-148 and apply_labels lines 103-104
ApplyLabelsStart ==
    /\ pc = "labels"
    /\ labels_file.exists
    /\ read_labels(labels_file) # <<>>
    /\ labels' = read_labels(labels_file)
    /\ points' = AllUnknown(points)
    /\ li' = 1
    /\ pc' = "loop"
    /\ UNCHANGED <<labels_file, notLabelVars>>

\* apply_labels lines 107-115: one interval
ApplyLabelsStep ==
    /\ pc = "loop"
    /\ li <= Len(labels)
    /\ points' = ApplyLabel(points, labels[li])
    /\ li' = li + 1
    /\ UNCHANGED <<pc, labels_file, labels, notLabelVars>>

\* apply_labels: the loop is over
ApplyLabelsReturn ==
    /\ pc = "loop"
    /\ li > Len(labels)
    /\ pc' = "labelled"
    /\ UNCHANGED <<points, labels_file, labels, li, notLabelVars>>

NextLabels ==
    \/ LabelsFileMissing
    \/ ApplyLabelsNone
    \/ ApplyLabelsStart
    \/ ApplyLabelsStep
    \/ ApplyLabelsReturn

SpecLabels == InitLabels /\ [][NextLabels]_vars

----------------------------------------------------------------------------
(* Properties of the labelling *)

\* the positions of the intervals of labels that contain the time t
Containing(t) ==
    { j \in 1..Len(labels) : labels[j].start_time <= t /\ t <= labels[j].end_time }
LastContaining(t) == CHOOSE j \in Containing(t) : \A i \in Containing(t) : i <= j

\* the two intervals of the example: [0,10] then [5,15], with different modes
ExampleLabels ==
    /\ Len(labels) = 2
    /\ labels[1] = [start_time |-> 0, end_time |-> 10, label |-> 1]
    /\ labels[2] = [start_time |-> 5, end_time |-> 15, label |-> 2]

\* C12: the label of a sample is the mode of the last interval in list order
\* with start_time <= t <= end_time, and unknown if none contains t; with
\* [0,10] -> A followed by [5,15] -> B, t = 7 and t = 12 get B, t = 20 unknown.
C12_LastMatchWins ==
    (pc = "labelled" /\ labels # <<>>) =>
        /\ \A k \in 1..Len(points) :
              IF Containing(points[k].time) = {}
              THEN points[k].label = 0 /\ points[k].label_name = "unknown"
              ELSE points[k].label = labels[LastContaining(points[k].time)].label
        /\ ExampleLabels =>
              \A k \in 1..Len(points) :
                  /\ points[k].time \in {7, 12} =>
                        points[k].label = 2 /\ points[k].label_name = "taxi_central"
                  /\ points[k].time = 20 =>
                        points[k].label = 0 /\ points[k].label_name = "unknown"

\* C12 witness: the example, with samples at 7, 12 and 20
C12_Witness ==
    /\ pc = "labelled"
    /\ ExampleLabels
    /\ Len(points) = 3
    /\ points[1].time = 7 /\ points[2].time = 12 /\ points[3].time = 20
    /\ points[1].label = 2 /\ points[2].label = 2 /\ points[3].label = 0

\* C13: with zero label intervals (labels.txt missing, empty or without a line
\* that parses) every sample is unknown: label 0, label_name 'unknown'.
C13_NoIntervalsAllUnknown ==
    (pc = "labelled" /\ \A j \in 1..Len(labels_file.lines) : ~labels_file.lines[j].ok)
        => \A k \in 1..Len(points) :
              points[k].label = 0 /\ points[k].label_name = "unknown"

\* C13 witness: a labels.txt whose only lines do not parse, and samples
C13_Witness ==
    /\ pc = "labelled"
    /\ labels_file.exists
    /\ Len(labels_file.lines) = 2
    /\ \A j \in 1..2 : ~labels_file.lines[j].ok
    /\ Len(points) >= 2

----------------------------------------------------------------------------
(* Specification of the bounding box: calculate_bounding_box_coord called  *)
(* with two radii.  The function has no check of its argument.             *)

\* a few metres around zero, and 1, 2 and 30 km
Radii == (-2..MaxRadius) \cup {1000, 2000, 30000}

InitBBox ==
    /\ pc = "bbox"
    /\ radius \in Radii
    /\ radius2 \in Radii
    /\ bbox = NoBox
    /\ bbox2 = NoBox
    /\ ValidatorIdle
    /\ DedupIdle
    /\ LabelIdle
    /\ TrajIdle
    /\ CountIdle
    /\ CleanIdle

notBBoxVars ==
    <<validatorVars, dedupVars, labelVars, trajVars, countVars, cleanVars>>

CalculateBoundingBoxCoord ==
    /\ pc = "bbox"
    /\ bbox' = calculate_bounding_box_coord(radius)
    /\ bbox2' = calculate_bounding_box_coord(radius2)
    /\ pc' = "boxed"
    /\ UNCHANGED <<radius, radius2, notBBoxVars>>

NextBBox == CalculateBoundingBoxCoord

SpecBBox == InitBBox /\ [][NextBBox]_vars

----------------------------------------------------------------------------
(* Properties of the bounding box *)

StrictlyAround(b) ==
    /\ b.min_lon < lon /\ lon < b.max_lon
    /\ b.min_lat < lat /\ lat < b.max_lat
Around(b) ==
    /\ b.min_lon <= lon /\ lon <= b.max_lon
    /\ b.min_lat <= lat /\ lat <= b.max_lat
StrictlyInside(a, b) ==
    /\ b.min_lon < a.min_lon /\ a.max_lon < b.max_lon
    /\ b.min_lat < a.min_lat /\ a.max_lat < b.max_lat
Inside(a, b) ==
    /\ b.min_lon <= a.min_lon /\ a.max_lon <= b.max_lon
    /\ b.min_lat <= a.min_lat /\ a.max_lat <= b.max_lat
\* one km, in the unit of the radius
OneKm == 1000

C17_NonPositiveRadiusFails ==
    ~(pc = "boxed" /\ radius <= 0)

----------------------------------------------------------------------------
(* csv_to_plt_format.py: create_trajectory_files, and visualize_paths.py:  *)
(* read_plt and read_taxi, for the rows of one taxi                        *)

\* line 69: a point every 15 seconds
SamplingInterval == 15
\* strftime('%Y-%m-%d') and strftime('%H:%M:%S'): a day and a second of it
DaySeconds == 86400

\* datetime.fromtimestamp(t) is the local wall-clock time of the process.
\* Two zones: UTC, and a zone with summer time (Europe/Lisbon) whose clocks go
\* back one hour at 2013-10-27 01:00:00 UTC, a day of the data set.
FoldAt       == 1382835600
SummerOffset == 3600
Zones        == {"UTC", "Europe/Lisbon"}
utcoffset(zone, t) ==
    IF zone = "Europe/Lisbon" /\ t < FoldAt THEN SummerOffset ELSE 0
fromtimestamp(zone, t) == t + utcoffset(zone, t)

\* the date and the time of day, as strftime writes them
strftime(local) == [date |-> local \div DaySeconds, time |-> local % DaySeconds]

\* lines 11-18: the list of the cell, [] for NaN, "[]" and what literal_eval
\* rejects
parse_polyline(cell) == IF cell.kind = "list" THEN cell.items ELSE <<>>

\* lines 66-77: the lines of the file after the header; enumerate counts
\* from 0, the sequence from 1
PltLines(zone, timestamp, polyline) ==
    [j \in 1..Len(polyline) |->
        LET point_time == fromtimestamp(zone, timestamp + (j - 1) * SamplingInterval)
        IN  [lat  |-> polyline[j].toks[2].v,
             lon  |-> polyline[j].toks[1].v,
             date |-> strftime(point_time).date,
             time |-> strftime(point_time).time]]

\* lines 51-52: the file name is the local start time to the second
Filename(zone, timestamp) == strftime(fromtimestamp(zone, timestamp))

\* read_plt lines 19-33: the date and time columns parsed into one naive time
ParsedTime(line) == line.date * DaySeconds + line.time
read_plt(lines) ==
    [j \in 1..Len(lines) |->
        [time |-> ParsedTime(lines[j]), lat |-> lines[j].lat, lon |-> lines[j].lon,
         label |-> None, label_name |-> ""]]

\* glob.glob: the names of the directory in an arbitrary order
GlobOrders(names) ==
    { o \in [1..Cardinality(names) -> names] :
        \A a, b \in 1..Cardinality(names) : a # b => o[a] # o[b] }

\* read_taxi lines 130-140: the frames of the files one after the other
RECURSIVE Concat(_, _)
Concat(fs, order) ==
    IF order = <<>> THEN <<>>
    ELSE read_plt(fs[Head(order)]) \o Concat(fs, Tail(order))

\* no sort at all
SortedOrdersUnsorted(frame, I) == {frame}

\* line 143: sort_values('time') with the default kind, quicksort, which is
\* not stable: the rows in every order that is non-decreasing in time.
\* I is the set of positions of frame still to place.
RECURSIVE SortedOrders(_, _)
SortedOrders(frame, I) ==
    IF I = {} THEN {<<>>}
    ELSE LET firsts == {i \in I : \A j \in I : frame[i].time <= frame[j].time}
         IN  UNION { { <<frame[i]>> \o rest : rest \in SortedOrders(frame, I \ {i}) }
                     : i \in firsts }

\* apply_labels lines 92-115
RECURSIVE ApplyLabelsFrom(_, _, _)
ApplyLabelsFrom(ps, ls, j) ==
    IF j > Len(ls) THEN ps ELSE ApplyLabelsFrom(ApplyLabel(ps, ls[j]), ls, j + 1)
apply_labels(ps, ls) ==
    IF ls = <<>> THEN AllUnknown(ps) ELSE ApplyLabelsFrom(AllUnknown(ps), ls, 1)

\* read_taxi lines 145-151
Labelled(frame, f) ==
    IF f.exists THEN apply_labels(frame, read_labels(f)) ELSE AllUnknown(frame)

----------------------------------------------------------------------------
(* Specification of the trajectories of one taxi: create_trajectory_files  *)
(* writes a file per row, a row a step, create_labels_file writes          *)
(* labels.txt, then read_taxi reads the directory                          *)

\* start times around the hour in which the clocks of Europe/Lisbon go back:
\* two trips 15 s apart, and two trips with the same local start time
StartTimes == {FoldAt - 30, FoldAt - 15, FoldAt + SummerOffset - 30}

\* the polyline of the k-th row with n points: the longitude is the position
\* in the trip and the latitude is the row, so that every sample is distinct
TripPolyline(k, n) == ListText([j \in 1..n |-> Point(j - 1, k)])

\* the call types of the rows: "A", "B", "C" in turn, from any of the three
CallTypes == <<"A", "B", "C">>
CallTypeOf(shift, k) == CallTypes[((k + shift) % 3) + 1]

\* the rows of a group of groupby("TAXI_ID"), at least one
IsTrips(rows) ==
    \* a polyline of n points, NaN, or a text literal_eval rejects
    \E n \in 1..MaxTrips : \E shift \in 0..2 :
        \E ts \in [1..n -> StartTimes] : \E ns \in [1..n -> 0..(MaxTripPoints + 2)] :
            rows = [k \in 1..n |->
                      [TIMESTAMP |-> ts[k],
                       CALL_TYPE |-> CallTypeOf(shift, k),
                       POLYLINE  |-> IF ns[k] = MaxTripPoints + 1 THEN NaNCell
                                     ELSE IF ns[k] = MaxTripPoints + 2 THEN BadText
                                     ELSE TripPolyline(k, ns[k])]]

\* no row is skipped
SkippedNever(polyline) == FALSE
\* lines 47 and 101: if not polyline
Skipped(polyline) == polyline = <<>>

\* create_labels_file lines 110-116
ModeOfCallType(call_type) ==
    IF call_type = "A" THEN "taxi_central"
    ELSE IF call_type = "B" THEN "taxi_stand"
    ELSE "taxi_street"

\* create_labels_file lines 98-122: the line of a row, with the local start
\* time and the local time of start + len(polyline) * 15, written with
\* strftime and, in read_labels, read with strptime
LabelLineOf(zone, row) ==
    LabelLine(ParsedTime(strftime(fromtimestamp(zone, row.TIMESTAMP))),
              ParsedTime(strftime(fromtimestamp(zone,
                  row.TIMESTAMP + Len(parse_polyline(row.POLYLINE)) * SamplingInterval))),
              ModeOfCallType(row.CALL_TYPE))

\* create_labels_file lines 97-122: the lines of labels.txt
LabelsLines(zone, rows) ==
    LET F[k \in 0..Len(rows)] ==
            IF k = 0 THEN <<>>
            ELSE IF Skipped(parse_polyline(rows[k].POLYLINE)) THEN F[k - 1]
                 ELSE Append(F[k - 1], LabelLineOf(zone, rows[k]))
    IN  F[Len(rows)]

InitTrajectory ==
    /\ pc = "write"
    /\ tz \in Zones
    /\ IsTrips(trips)
    /\ ti = 1
    /\ files = <<>>
    /\ plt_files = <<>>
    /\ traj = <<>>
    /\ ValidatorIdle
    /\ DedupIdle
    /\ LabelIdle
    /\ BBoxIdle
    /\ CountIdle
    /\ CleanIdle

notTrajVars ==
    <<validatorVars, dedupVars, labelVars, bboxVars, countVars, cleanVars>>

\* lines 44-48: an empty polyline, continue
SkipTrip ==
    /\ pc = "write"
    /\ ti <= Len(trips)
    /\ Skipped(parse_polyline(trips[ti].POLYLINE))
    /\ ti' = ti + 1
    /\ UNCHANGED <<pc, tz, trips, files, plt_files, traj, notTrajVars>>

\* lines 50-77: open(filepath, "w") replaces a file of the same name
WriteTrip ==
    /\ pc = "write"
    /\ ti <= Len(trips)
    /\ ~Skipped(parse_polyline(trips[ti].POLYLINE))
    /\ files' = (Filename(tz, trips[ti].TIMESTAMP) :>
                    PltLines(tz, trips[ti].TIMESTAMP, parse_polyline(trips[ti].POLYLINE)))
                @@ files
    /\ ti' = ti + 1
    /\ UNCHANGED <<pc, tz, trips, plt_files, traj, notTrajVars>>

\* create_labels_file lines 88-122, for the taxi: its directory exists since
\* create_trajectory_files made it
CreateLabelsFile ==
    /\ pc = "write"
    /\ ti > Len(trips)
    /\ labels_file' = [exists |-> TRUE, lines |-> LabelsLines(tz, trips)]
    /\ pc' = "assembled"
    /\ UNCHANGED <<points, labels, li, trajVars, validatorVars, dedupVars, bboxVars,
                   countVars, cleanVars>>

\* read_taxi lines 121-127: no file
ReadTaxiNoFiles ==
    /\ pc = "assembled"
    /\ DOMAIN files = {}
    /\ traj' = <<>>
    /\ pc' = "read"
    /\ UNCHANGED <<tz, trips, ti, files, plt_files, notTrajVars>>

\* read_taxi lines 121-153
ReadTaxi ==
    /\ pc = "assembled"
    /\ DOMAIN files # {}
    /\ \E order \in GlobOrders(DOMAIN files) :
          /\ plt_files' = order
          /\ \E sorted \in SortedOrders(Concat(files, order),
                                        1..Len(Concat(files, order))) :
                traj' = Labelled(sorted, labels_file)
    /\ pc' = "read"
    /\ UNCHANGED <<tz, trips, ti, files, notTrajVars>>

NextTrajectory ==
    SkipTrip \/ WriteTrip \/ CreateLabelsFile \/ ReadTaxiNoFiles \/ ReadTaxi

SpecTrajectory == InitTrajectory /\ [][NextTrajectory]_vars

----------------------------------------------------------------------------
(* Properties of the trajectories *)

\* C14: the frame read_taxi returns is non-decreasing in time, whatever the
\* order in which the files were read and also when trips overlap in time.
C14_NonDecreasingByTime ==
    pc = "read" => \A k \in 1..(Len(traj) - 1) : traj[k].time <= traj[k + 1].time

\* C14 witness: two overlapping trips read back in the order opposite to their
\* start times
C14_Witness ==
    /\ pc = "read"
    /\ Len(plt_files) = 2
    /\ ParsedTime(files[plt_files[1]][1]) > ParsedTime(files[plt_files[2]][1])
    /\ Len(files[plt_files[2]]) >= 2
    /\ Len(traj) >= 3

\* the row of the sample (its latitude) and its position in the trip (its
\* longitude)
TripOf(p)  == p.lat
IndexOf(p) == p.lon

\* C15: samples of equal time are in the order of their trips and, within a
\* trip, of their positions in it.
C15_TiesInTripOrder ==
    pc = "read" =>
        \A k, l \in 1..Len(traj) :
            (k < l /\ traj[k].time = traj[l].time) =>
                \/ TripOf(traj[k]) < TripOf(traj[l])
                \/ TripOf(traj[k]) = TripOf(traj[l]) /\ IndexOf(traj[k]) < IndexOf(traj[l])

\* C20: in every file written, consecutive samples are exactly one sampling
\* interval apart (so strictly increasing), the first being at the start time.
C20_SamplesOneIntervalApart ==
    \A name \in DOMAIN files :
        \A j \in 1..(Len(files[name]) - 1) :
            ParsedTime(files[name][j + 1]) = ParsedTime(files[name][j]) + SamplingInterval

----------------------------------------------------------------------------
(* Specification of the counting: count_invalid_trips, a row of the batch  *)
(* a step.  The progress line it prints every 100000 rows changes nothing. *)

\* the polylines of a batch: NaN, an unparseable text, "[]", one to three
\* points in the box, two points of which one is outside, and a flat list
CenterPoint == Point(lon, lat)
CountCells ==
    { NaNCell, BadText, ListText(<<>>),
      ListText(<<CenterPoint>>),
      ListText(<<CenterPoint, CenterPoint>>),
      ListText(<<CenterPoint, CenterPoint, CenterPoint>>),
      ListText(<<CenterPoint, Point(lon, PORTO_BOUNDS.max_lat + 1)>>),
      ListText(<<Scalar(Num(lon)), Scalar(Num(lat))>>) }

\* (min_points, max_points): everything too long, a window of one length, and
\* a wider window
CountThresholds == {<<0, 0>>, <<2, 2>>, <<1, 3>>}

IsBatch(rows) ==
    \E n \in 0..MaxBatch :
        \E ps \in [1..n -> CountCells] : \E ms \in [1..n -> BOOLEAN] :
            rows = [k \in 1..n |-> [POLYLINE |-> ps[k], MISSING_DATA |-> ms[k]]]

InitCount ==
    /\ pc = "count"
    /\ IsBatch(batch)
    /\ \E th \in CountThresholds : arg_min_points = th[1] /\ arg_max_points = th[2]
    /\ ci = 0
    /\ counts_missing = ZeroCounts
    /\ counts_valid_flag = ZeroCounts
    /\ summary = NoSummary
    /\ ValidatorIdle
    /\ DedupIdle
    /\ LabelIdle
    /\ BBoxIdle
    /\ TrajIdle
    /\ CleanIdle

notCountVars ==
    <<validatorVars, dedupVars, labelVars, bboxVars, trajVars, cleanVars>>

\* the counter set to one
IncrementToOne(counts, reason) == [counts EXCEPT ![reason] = 1]
\* lines 233 and 235: counts[result["reason"]] += 1
Increment(counts, reason) == [counts EXCEPT ![reason] = @ + 1]

\* lines 218-235: one row
CountStep ==
    /\ pc = "count"
    /\ ci < Len(batch)
    /\ LET poly == batch[ci + 1].POLYLINE
           miss == batch[ci + 1].MISSING_DATA
           res  == validate_single_polyline(poly, arg_min_points, arg_max_points)
       IN  IF miss
           THEN /\ counts_missing' = Increment(counts_missing, res.reason)
                /\ UNCHANGED counts_valid_flag
           ELSE /\ counts_valid_flag' = Increment(counts_valid_flag, res.reason)
                /\ UNCHANGED counts_missing
    /\ ci' = ci + 1
    /\ UNCHANGED <<pc, batch, arg_min_points, arg_max_points, summary, notCountVars>>

\* lines 237-240
CountReturn ==
    /\ pc = "count"
    /\ ci = Len(batch)
    /\ summary' = [missing_data_true  |-> counts_missing,
                   missing_data_false |-> counts_valid_flag]
    /\ pc' = "counted"
    /\ UNCHANGED <<batch, arg_min_points, arg_max_points, ci, counts_missing,
                   counts_valid_flag, notCountVars>>

NextCount == CountStep \/ CountReturn

SpecCount == InitCount /\ [][NextCount]_vars

\* the loop is one thread that goes on until the batch is through
SpecCountFair == SpecCount /\ WF_vars(NextCount)

----------------------------------------------------------------------------
(* Properties of the counting *)

RECURSIVE SumOver(_, _)
SumOver(counts, keys) ==
    IF keys = {} THEN 0
    ELSE LET k == CHOOSE x \in keys : TRUE
         IN  counts[k] + SumOver(counts, keys \ {k})
Total(counts) == SumOver(counts, Reasons)

\* exactly one counter of the two dictionaries is one higher: the one of the
\* row's flag and of its validation reason
OneCounterIncremented ==
    LET row == batch[ci + 1]
        reason == validate_single_polyline(row.POLYLINE, arg_min_points, arg_max_points).reason
        mine   == IF row.MISSING_DATA THEN counts_missing ELSE counts_valid_flag
        mine2  == IF row.MISSING_DATA THEN counts_missing' ELSE counts_valid_flag'
        other  == IF row.MISSING_DATA THEN counts_valid_flag ELSE counts_missing
        other2 == IF row.MISSING_DATA THEN counts_valid_flag' ELSE counts_missing'
    IN  /\ reason \in Reasons
        /\ mine2[reason] = mine[reason] + 1
        /\ \A k \in Reasons \ {reason} : mine2[k] = mine[k]
        /\ other2 = other

SumIsProcessed ==
    /\ pc = "count" => Total(counts_missing) + Total(counts_valid_flag) = ci
    /\ pc = "counted" =>
          /\ ci = Len(batch)
          /\ Total(summary.missing_data_true) + Total(summary.missing_data_false)
                = Len(batch)

\* C18: count_invalid_trips returns a summary for every batch; each row
\* increments exactly one counter, the one of its missing-data flag and of its
\* validation reason, so the counters sum to the number of rows processed at
\* every step of the loop and to the size of the batch in the summary.
C18_EveryRecordCountedOnce ==
    /\ []SumIsProcessed
    /\ [][ci' # ci => OneCounterIncremented]_vars
    /\ <>(pc = "counted")

\* C18 witness: a summary of a batch with a malformed row and a valid row,
\* one with the missing-data flag and one without
C18_Witness ==
    /\ pc = "counted"
    /\ Len(batch) >= 2
    /\ Total(summary.missing_data_true) >= 1
    /\ Total(summary.missing_data_false) >= 1
    /\ summary.missing_data_true["malformed"] + summary.missing_data_false["malformed"] >= 1
    /\ summary.missing_data_true["valid"] + summary.missing_data_false["valid"] >= 1

----------------------------------------------------------------------------
(* Specification of the cleaning: the statements of data_cleaning.py after *)
(* the file is read, lines 43-58                                           *)

\* line 46: min_polyline_points=8, max_polyline_points=480
CleanMinPoints == 8
CleanMaxPoints == 480

\* a polyline of n points in the box
PolylineOf(n) == ListText([j \in 1..n |-> CenterPoint])

\* the polylines of the raw file: NaN, an unparseable text, "[]", one point
\* fewer than the minimum, the minimum, the maximum, one point more, and the
\* minimum with a point outside the box
RawCells ==
    { NaNCell, BadText, ListText(<<>>),
      PolylineOf(CleanMinPoints - 1), PolylineOf(CleanMinPoints),
      PolylineOf(CleanMaxPoints), PolylineOf(CleanMaxPoints + 1),
      ListText([j \in 1..CleanMinPoints |->
                  IF j = 1 THEN Point(lon, PORTO_BOUNDS.max_lat + 1) ELSE CenterPoint]) }

\* line 10: read_csv gives the rows the labels 0, 1, ...; the rows are of one
\* trip id, so that handle_duplicates drops and renames
IsRaw(frame) ==
    \E n \in 0..MaxRaw :
        \E taxis \in [1..n -> {1, 2}] : \E ps \in [1..n -> RawCells] :
            frame = [k \in 1..n |->
                        [idx |-> k - 1, TRIP_ID |-> IntId(0), TAXI_ID |-> taxis[k],
                         POLYLINE |-> ps[k]]]

InitClean ==
    /\ pc = "raw"
    /\ IsRaw(raw)
    /\ df_clean = <<>>
    /\ clean_file = NotWritten
    /\ ValidatorIdle
    /\ DedupIdle
    /\ LabelIdle
    /\ BBoxIdle
    /\ TrajIdle
    /\ CountIdle

notCleanVars == <<validatorVars, dedupVars, labelVars, bboxVars, trajVars, countVars>>

\* every row but the empty ones kept
ValidMaskNotEmpty(res) == res.reason # "empty"
\* line 49: lambda x: x["valid"]
ValidMask(res) == res.valid

\* lines 44-48
val_results(frame) ==
    [k \in 1..Len(frame) |->
        validate_single_polyline(frame[k].POLYLINE, CleanMinPoints, CleanMaxPoints)]

\* lines 43-49
FilterValid ==
    /\ pc = "raw"
    /\ df_clean' =
          LET F[k \in 0..Len(raw)] ==
                  IF k = 0 THEN <<>>
                  ELSE IF ValidMask(val_results(raw)[k]) THEN Append(F[k - 1], raw[k])
                       ELSE F[k - 1]
          IN  F[Len(raw)]
    /\ pc' = "filtered"
    /\ UNCHANGED <<raw, clean_file, notCleanVars>>

\* line 52
CleanHandleDuplicates ==
    /\ pc = "filtered"
    /\ df_clean' = handle_duplicates(df_clean)
    /\ pc' = "deduplicated"
    /\ UNCHANGED <<raw, clean_file, notCleanVars>>

\* line 55: df_clean has no column num_points, the statement raises KeyError
\* and the script ends before line 58 writes clean_file
DeriveFieldsKeyError ==
    /\ pc = "deduplicated"
    /\ pc' = "KeyError"
    /\ UNCHANGED <<raw, df_clean, clean_file, notCleanVars>>

NextClean == FilterValid \/ CleanHandleDuplicates \/ DeriveFieldsKeyError

SpecClean == InitClean /\ [][NextClean]_vars

----------------------------------------------------------------------------
(* Properties of the cleaning *)

IsValid(cell) ==
    validate_single_polyline(cell, CleanMinPoints, CleanMaxPoints) =
        [valid |-> TRUE, reason |-> "valid", point_count |-> Len(cell.items)]

AllRowsValid(frame) == \A i \in 1..Len(frame) : IsValid(frame[i].POLYLINE)

Cleaned == pc \in {"filtered", "deduplicated", "KeyError"}

\* C19: every row passed to handle_duplicates, returned by it and written to
\* clean_file has a polyline that is valid with min 8 and max 480, and every
\* row classified empty, malformed, too_short, too_long or out_of_bounds is
\* absent from them.
C19_OnlyValidRetained ==
    Cleaned =>
        /\ AllRowsValid(df_clean)
        /\ AllRowsValid(clean_file.rows)
        /\ \A k \in 1..Len(raw) :
              val_results(raw)[k].reason
                    \in {"empty", "malformed", "too_short", "too_long", "out_of_bounds"}
                => /\ \A i \in 1..Len(df_clean) : df_clean[i].idx # raw[k].idx
                   /\ \A i \in 1..Len(clean_file.rows) :
                         clean_file.rows[i].idx # raw[k].idx

\* C19 witness: a too long row and a valid row went in, the valid row came
\* out of handle_duplicates
C19_Witness ==
    /\ pc = "deduplicated"
    /\ Len(raw) = 2
    /\ val_results(raw)[1].reason = "too_long"
    /\ val_results(raw)[2].reason = "valid"
    /\ Len(df_clean) = 1
    /\ df_clean[1].idx = 1

\* C21: the cleaning computes TRIP_DURATION = point_count * 15 and END_TIME =
\* TIMESTAMP + point_count * 15 for every retained row of every batch without
\* failing: the script never ends at line 55.
C21_DerivedFieldsComputed ==
    pc # "KeyError"

----------------------------------------------------------------------------
(* Properties of the assembly: files, labels.txt and the frame read back *)

Assembled == pc \in {"assembled", "read"}

\* a row with zero samples: null, "[]" or a text that does not parse
ZeroSamples(row) ==
    \/ row.POLYLINE.kind \in {"nan", "bad"}
    \/ row.POLYLINE = ListText(<<>>)

PointCount(row) == IF ZeroSamples(row) THEN 0 ELSE Len(row.POLYLINE.items)

RECURSIVE SumPointCounts(_, _)
SumPointCounts(rows, k) ==
    IF k = 0 THEN 0 ELSE PointCount(rows[k]) + SumPointCounts(rows, k - 1)

\* C22: a row with zero samples is skipped without failing the batch: no line
\* of a file, no sample of the frame and no line of labels.txt comes from it,
\* and every other row of the taxi is written to its file and gets its line
\* of labels.txt.
C22_ZeroSampleTripsSkipped ==
    Assembled =>
        /\ ti = Len(trips) + 1
        /\ \A k \in 1..Len(trips) :
              IF ZeroSamples(trips[k])
              THEN /\ \A name \in DOMAIN files : \A j \in 1..Len(files[name]) :
                         files[name][j].lat # k
                   /\ \A j \in 1..Len(traj) : TripOf(traj[j]) # k
              ELSE /\ Filename(tz, trips[k].TIMESTAMP) \in DOMAIN files
                   /\ files[Filename(tz, trips[k].TIMESTAMP)] # <<>>
                   /\ \E j \in 1..Len(labels_file.lines) :
                         labels_file.lines[j] = LabelLineOf(tz, trips[k])
        /\ Len(labels_file.lines)
              = Cardinality({k \in 1..Len(trips) : ~ZeroSamples(trips[k])})

\* C22 witness: a row with zero samples, then a row with samples, which are
\* the frame read back
C22_Witness ==
    /\ pc = "read"
    /\ Len(trips) >= 2
    /\ ZeroSamples(trips[1])
    /\ ~ZeroSamples(trips[2])
    /\ Len(traj) = PointCount(trips[2])
    /\ Len(labels_file.lines) = 1

\* C23: the frame read back has the samples of all rows of the taxi: as many
\* as the point counts of the rows add up to, also when two rows have the
\* same start timestamp.
C23_AllSamplesReadBack ==
    pc = "read" => Len(traj) = SumPointCounts(trips, Len(trips))

\* no two rows with samples overlap or touch in time
NoTwoTripsOverlap ==
    \A a, b \in 1..Len(trips) :
        (a # b /\ ~ZeroSamples(trips[a]) /\ ~ZeroSamples(trips[b])) =>
            \/ trips[b].TIMESTAMP
                  > trips[a].TIMESTAMP + PointCount(trips[a]) * SamplingInterval
            \/ trips[a].TIMESTAMP
                  > trips[b].TIMESTAMP + PointCount(trips[b]) * SamplingInterval

\* C27: with labels.txt written by create_labels_file from the taxi's own
\* rows, and no two rows overlapping or touching in time, every sample read
\* back has the mode of the row it came from, and none is unknown.
C27_SamplesLabelledByOwnTrip ==
    (pc = "read" /\ NoTwoTripsOverlap) =>
        \A j \in 1..Len(traj) :
            /\ traj[j].label_name = ModeOfCallType(trips[TripOf(traj[j])].CALL_TYPE)
            /\ traj[j].label = mode_ids(traj[j].label_name)
            /\ traj[j].label # 0

----------------------------------------------------------------------------
(* count_invalid_trips as a function of the batch, and its shards *)

\* lines 199-240: the loop of count_invalid_trips over rows, from the first
count_invalid_trips(rows, mn, mx) ==
    LET F[k \in 0..Len(rows)] ==
            IF k = 0
            THEN [missing_data_true |-> ZeroCounts, missing_data_false |-> ZeroCounts]
            ELSE LET res == validate_single_polyline(rows[k].POLYLINE, mn, mx)
                 IN  IF rows[k].MISSING_DATA
                     THEN [F[k - 1] EXCEPT !.missing_data_true = Increment(@, res.reason)]
                     ELSE [F[k - 1] EXCEPT !.missing_data_false = Increment(@, res.reason)]
    IN  F[Len(rows)]

\* the counter-wise sum of two summaries
SummarySum(a, b) ==
    [missing_data_true  |-> [k \in Reasons |->
                                a.missing_data_true[k] + b.missing_data_true[k]],
     missing_data_false |-> [k \in Reasons |->
                                a.missing_data_false[k] + b.missing_data_false[k]]]

\* C24: for every split of the batch into two consecutive shards, the summary
\* of the batch is the counter-wise sum of the summaries of the shards, in
\* both counter sets.
C24_ShardsSum ==
    pc = "counted" =>
        \A k \in 0..Len(batch) :
            summary = SummarySum(
                count_invalid_trips(SubSeq(batch, 1, k), arg_min_points, arg_max_points),
                count_invalid_trips(SubSeq(batch, k + 1, Len(batch)),
                                    arg_min_points, arg_max_points))

\* C24 witness: two rows with the same flag and the same reason, one in each
\* shard, so that the sum of the shards' counters is 2
C24_Witness ==
    /\ pc = "counted"
    /\ Len(batch) = 2
    /\ batch[1].MISSING_DATA = batch[2].MISSING_DATA
    /\ \E reason \in Reasons :
          /\ summary.missing_data_true[reason] + summary.missing_data_false[reason] = 2
          /\ count_invalid_trips(SubSeq(batch, 1, 1), arg_min_points, arg_max_points)
                = count_invalid_trips(SubSeq(batch, 2, 2), arg_min_points, arg_max_points)

----------------------------------------------------------------------------
(* Properties of apply_labels: the label columns and the frame *)

\* C25: once apply_labels has set the label columns, and after every pass of
\* its loop, the label of each sample is one of 0, 1, 2, 3 and its label_name
\* is the one key of mode_ids with that value, also for intervals of an
\* unrecognised mode, which read_labels encodes as 0.
C25_LabelAndNameAgree ==
    pc \in {"loop", "labelled"} =>
        \A k \in 1..Len(points) :
            /\ points[k].label \in 0..3
            /\ label_name(points[k].label) = <<points[k].label_name>>

\* C25 witness: between two passes of the loop, a sample labelled by the first
\* interval, and an interval of an unrecognised mode among the intervals
C25_Witness ==
    /\ pc = "loop"
    /\ li = 2
    /\ Len(labels) = 2
    /\ \E j \in 1..2 : labels[j].label = 0
    /\ \E k \in 1..Len(points) : points[k].label # 0

\* the columns of the samples other than the label columns, in order
FrameOf(ps) == [k \in 1..Len(ps) |-> <<ps[k].time, ps[k].lat, ps[k].lon>>]

\* C26: apply_labels writes only the label and label_name of the samples:
\* their number, their order and their time, latitude and longitude stay as
\* they are, and so do the intervals once they are loaded, and labels.txt.
C26_OnlyLabelColumnsWritten ==
    [][/\ FrameOf(points') = FrameOf(points)
       /\ pc = "loop" => labels' = labels
       /\ labels_file' = labels_file]_vars

\* C26 witness: two samples after the loop, one labelled and one not
C26_Witness ==
    /\ pc = "labelled"
    /\ Len(labels) >= 1
    /\ Len(points) >= 2
    /\ \E k \in 1..Len(points) : points[k].label # 0
    /\ \E k \in 1..Len(points) : points[k].label = 0

====
